---------------------------- MODULE Spec2Model ----------------------------
(***************************************************************************)
(* A model of extract_lisamonitor_image.py: the Lisa Monitor disk image    *)
(* extractor.  Each part of the pipeline has its own specification over    *)
(* its own group of variables:                                             *)
(*   SpecSwap    container unwrapping and swap_tracks                      *)
(*   SpecNull    clean_null                                                *)
(*   SpecIndent  pascal_indent, one step per iteration of its while-loop   *)
(*   SpecLE      convert_line_endings                                      *)
(*   SpecMain    the file-table loop of main and the output loop           *)
(* Byte strings are sequences of numbers 0..255.  Where only the placement *)
(* of bytes matters (swap_tracks, the payload slices of main) a byte       *)
(* string is given as the sequence of extents <<a, b>> (half-open ranges   *)
(* of offsets into the buffer it was cut from) that it is made of.         *)
(***************************************************************************)
EXTENDS Integers, Sequences, FiniteSets, TLC

VARIABLES
    \* SpecSwap: main, lines 172-189
    input_image,    \* [dc42 : BOOLEAN, len : Nat]: the named file and len(dat)
    hdrlen,         \* the 32-bit field dat[0x40:0x44] of the file, read big-endian
    datlen,         \* main's datlen
    datablock,      \* main's datablock, as extents of offsets into dat
    swapped,        \* datablock after line 189, as extents into the old datablock
    spc             \* position in lines 172-189

swapVars == <<input_image, hdrlen, datlen, datablock, swapped, spc>>

\* SpecNull: clean_null, lines 119-124
VARIABLES
    cn_dval,    \* the payload handed to clean_null
    cn_out,     \* clean_null(cn_dval)
    cn_again,   \* clean_null(cn_out)
    npc

nullVars == <<cn_dval, cn_out, cn_again, npc>>

\* SpecIndent: pascal_indent, lines 126-146
VARIABLES
    pi_dval,        \* the argument dval
    pi_ba,          \* ba
    pi_i,           \* i
    pi_nchars,      \* nchars
    pi_warnings,    \* WARNING lines printed, counted up to MaxWarnings
    pi_pc           \* "scan" inside the loop, "done" after return, "raised" on IndexError

indentVars == <<pi_dval, pi_ba, pi_i, pi_nchars, pi_warnings, pi_pc>>

\* SpecLE: convert_line_endings, lines 148-157
VARIABLES
    le_dval,    \* the argument dval
    le_mode,    \* the argument mode
    le_out,     \* convert_line_endings(le_dval, le_mode)
    le_again,   \* convert_line_endings(le_out, le_mode)
    le_pc

leVars == <<le_dval, le_mode, le_out, le_again, le_pc>>

\* SpecMain: main, lines 210-336
VARIABLES
    args,           \* [no_clean_nulls, no_fix_indents, line_endings]
    table,          \* the 26-byte records datablock[0x400+26*f : 0x400+26*(f+1)] read so far
    written_le,     \* the byte order the records after record 0 were written in
    f,              \* f
    nfiles,         \* nfiles
    dirfound,       \* dirfound
    little_endian,  \* little_endian
    volname,        \* volname
    disktime,       \* disktime
    files,          \* files: key |-> [title, date, filedat, FKIND]
    warnings,       \* the kinds of WARNING lines printed
    curdir,         \* curdir
    pending,        \* the keys `for f in files` has still to visit
    fs_dirs,        \* directories under basepath (paths below the volume directory)
    fs_files,       \* files under basepath: path |-> [data, mtime]
    outlog,         \* the mkdir and write calls of the output loop, in order
    mpc             \* "parse", "write", "done"; "exit3" after exit(3); the uncaught
                    \* exception, "ValueError", "IndexError" or "OSError"; "hung"

mainVars == <<args, table, written_le, f, nfiles, dirfound, little_endian, volname,
              disktime, files, warnings, curdir, pending, fs_dirs, fs_files, outlog, mpc>>

vars == <<swapVars, nullVars, indentVars, leVars, mainVars>>

\* What a step of one part leaves alone.
OnlySwap == UNCHANGED <<nullVars, indentVars, leVars, mainVars>>
OnlyNull == UNCHANGED <<swapVars, indentVars, leVars, mainVars>>
OnlyIndent == UNCHANGED <<swapVars, nullVars, leVars, mainVars>>
OnlyLE == UNCHANGED <<swapVars, nullVars, indentVars, mainVars>>
OnlyMain == UNCHANGED <<swapVars, nullVars, indentVars, leVars>>

\* The variables of a part that is not run.
SwapIdle ==
    /\ input_image = [dc42 |-> FALSE, len |-> 0]
    /\ hdrlen = 0
    /\ datlen = 0
    /\ datablock = << >>
    /\ swapped = << >>
    /\ spc = "idle"

NullIdle ==
    /\ cn_dval = << >>
    /\ cn_out = << >>
    /\ cn_again = << >>
    /\ npc = "idle"

IndentIdle ==
    /\ pi_dval = << >>
    /\ pi_ba = << >>
    /\ pi_i = 0
    /\ pi_nchars = 0
    /\ pi_warnings = 0
    /\ pi_pc = "idle"

LEIdle ==
    /\ le_dval = << >>
    /\ le_mode = "idle"
    /\ le_out = << >>
    /\ le_again = << >>
    /\ le_pc = "idle"

MainIdle ==
    /\ args = [no_clean_nulls |-> FALSE, no_fix_indents |-> FALSE, line_endings |-> "none"]
    /\ table = << >>
    /\ written_le = FALSE
    /\ f = 0
    /\ nfiles = 1
    /\ dirfound = FALSE
    /\ little_endian = FALSE
    /\ volname = << >>
    /\ disktime = << >>
    /\ files = << >>
    /\ warnings = {}
    /\ curdir = << >>
    /\ pending = << >>
    /\ fs_dirs = {}
    /\ fs_files = << >>
    /\ outlog = << >>
    /\ mpc = "idle"

Min(a, b) == IF a <= b THEN a ELSE b
Max(a, b) == IF a >= b THEN a ELSE b

\* Sum of the lengths of a sequence of extents.
RECURSIVE ExtLen(_)
ExtLen(es) == IF es = << >> THEN 0
              ELSE (es[1][2] - es[1][1]) + ExtLen(Tail(es))

\* Python's s[a:b] on a buffer of length n: the extent it selects.
PySlice(n, a, b) ==
    LET lo == IF a < 0 THEN Max(a + n, 0) ELSE Min(a, n)
        hi == IF b < 0 THEN Max(b + n, 0) ELSE Min(b, n)
    IN  <<lo, Max(lo, hi)>>

\* An extent with no bytes adds nothing to a bytearray.
Prepend(e, ba) == IF e[2] > e[1] THEN <<e>> \o ba ELSE ba

BlockSize == 512
TwiggyBlocks == 1702
DC42HeaderLen == 84
NumTracks == 46

\* lines 93-108: sectors of physical track i
nsecs(i) ==
    IF i >= 0 /\ i <= 3 THEN 22
    ELSE IF i >= 4 /\ i <= 10 THEN 21
    ELSE IF i >= 11 /\ i <= 16 THEN 20
    ELSE IF i >= 17 /\ i <= 22 THEN 19
    ELSE IF i >= 23 /\ i <= 28 THEN 18
    ELSE IF i >= 29 /\ i <= 34 THEN 17
    ELSE IF i >= 35 /\ i <= 41 THEN 16
    ELSE 15

\* lines 92-114: the for-loop from iteration i on, with the loop's ba and tsecs
RECURSIVE swap_loop(_, _, _, _)
swap_loop(n, i, tsecs, ba) ==
    IF i >= NumTracks THEN ba
    ELSE LET a == (n \div 2) + (tsecs * BlockSize)
             b == a + (nsecs(i) * BlockSize)
         IN  swap_loop(n, i + 1, tsecs + nsecs(i), Prepend(PySlice(n, a, b), ba))

\* swap_tracks(dval) for len(dval) = n: the extents of dval the result is made of
swap_tracks(n) == Prepend(PySlice(n, 0, n \div 2), swap_loop(n, 0, 0, << >>))

MaxExtraBlocks == 3

\* The images tried: around the size of a full Twiggy disk, whole blocks or one
\* byte more, raw or in a DiskCopy 4.2 container whose file is as long as its
\* header says, one block shorter, or followed by tag bytes.
SwapDataLens == { (TwiggyBlocks - 1 + k) * BlockSize + r : k \in 0..(MaxExtraBlocks + 1), r \in {0, 1} }
SwapFileTails == { 0 - BlockSize, 0, 24 }

InitSwap ==
    /\ \E dc \in BOOLEAN, n \in SwapDataLens, t \in SwapFileTails :
          /\ (~dc) => t = 0
          /\ hdrlen = IF dc THEN n ELSE 0
          /\ input_image = [dc42 |-> dc, len |-> IF dc THEN DC42HeaderLen + n + t ELSE n]
    /\ datlen = 0
    /\ datablock = << >>
    /\ swapped = << >>
    /\ spc = "read"

\* lines 178-181
UnwrapDC42 ==
    /\ spc = "read"
    /\ input_image.dc42
    /\ datlen' = hdrlen
    /\ datablock' = Prepend(PySlice(input_image.len, DC42HeaderLen, DC42HeaderLen + hdrlen), << >>)
    /\ spc' = "unwrapped"
    /\ UNCHANGED <<input_image, hdrlen, swapped>>
    /\ OnlySwap

\* lines 183-185
UnwrapRaw ==
    /\ spc = "read"
    /\ ~input_image.dc42
    /\ datlen' = input_image.len
    /\ datablock' = Prepend(<<0, input_image.len>>, << >>)
    /\ spc' = "unwrapped"
    /\ UNCHANGED <<input_image, hdrlen, swapped>>
    /\ OnlySwap

\* lines 188-189, the guard true
SwapDoubleSided ==
    /\ spc = "unwrapped"
    /\ datlen \div BlockSize >= TwiggyBlocks
    /\ swapped' = swap_tracks(ExtLen(datablock))
    /\ spc' = "swapped"
    /\ UNCHANGED <<input_image, hdrlen, datlen, datablock>>
    /\ OnlySwap

\* lines 188-189, the guard false
KeepSingleSided ==
    /\ spc = "unwrapped"
    /\ ~(datlen \div BlockSize >= TwiggyBlocks)
    /\ swapped' = Prepend(<<0, ExtLen(datablock)>>, << >>)
    /\ spc' = "kept"
    /\ UNCHANGED <<input_image, hdrlen, datlen, datablock>>
    /\ OnlySwap

NextSwap == UnwrapDC42 \/ UnwrapRaw \/ SwapDoubleSided \/ KeepSingleSided

\* Offset in the result at which extent k of es starts.
ExtStart(es, k) == ExtLen(SubSeq(es, 1, k - 1))

\* Block j of the input (offsets j*0x200 .. (j+1)*0x200) is a block of the result.
BlockKept(es, j) ==
    \E k \in 1..Len(es) :
        /\ es[k][1] <= j * BlockSize
        /\ (j + 1) * BlockSize <= es[k][2]
        /\ (ExtStart(es, k) + (j * BlockSize - es[k][1])) % BlockSize = 0

\* C1: wherever main applies swap_tracks, the result is as long as the data
\* block it was given and every 0x200-byte block of that data block is a
\* 0x200-byte block of the result (with equal lengths: the same multiset of
\* blocks, for data whose blocks are all different).
C1_SwapIsBlockPermutation ==
    spc = "swapped" =>
        /\ ExtLen(swapped) = ExtLen(datablock)
        /\ \A j \in 0..((ExtLen(datablock) \div BlockSize) - 1) : BlockKept(swapped, j)

(***************************************************************************)
(* clean_null                                                              *)
(***************************************************************************)
NUL == 0

\* Python's s[a:b] on a byte string
PyBytes(s, a, b) == LET e == PySlice(Len(s), a, b) IN SubSeq(s, e[1] + 1, e[2])

\* bytes.rstrip(b'\0')
\* The last index in lo..hi of a byte of s that is not NUL, 0 when there is none.
RECURSIVE LastNonNul(_, _, _)
LastNonNul(s, lo, hi) ==
    IF lo > hi THEN 0
    ELSE IF lo = hi THEN (IF s[lo] # NUL THEN lo ELSE 0)
    ELSE LET mid == (lo + hi) \div 2
             r == LastNonNul(s, mid + 1, hi)
         IN  IF r # 0 THEN r ELSE LastNonNul(s, lo, mid)

RStripNul(s) == SubSeq(s, 1, LastNonNul(s, 1, Len(s)))

\* lines 122-123 with the blocks joined in the order the loop visits them
RECURSIVE clean_null_backwards(_, _, _)
clean_null_backwards(dval, i, ba) ==
    IF i < 0 THEN ba
    ELSE clean_null_backwards(dval, i - 1,
            ba \o RStripNul(PyBytes(dval, i * BlockSize, (i + 1) * BlockSize)))

\* lines 122-123: for i in reversed(range(sz)), from index i down, prepending
RECURSIVE clean_null_loop(_, _, _)
clean_null_loop(dval, i, ba) ==
    IF i < 0 THEN ba
    ELSE clean_null_loop(dval, i - 1,
            RStripNul(PyBytes(dval, i * BlockSize, (i + 1) * BlockSize)) \o ba)

clean_null_reversed(dval) == clean_null_backwards(dval, (Len(dval) \div BlockSize) - 1, << >>)

\* lines 119-124; int(math.ceil(len(dval)//0x200)) is len(dval)//0x200
clean_null(dval) == clean_null_loop(dval, (Len(dval) \div BlockSize) - 1, << >>)

MaxNullBlocks == 2
MaxNullTail == 2

Fill(b, n) == [i \in 1..n |-> b]

\* Payloads tried: up to MaxNullBlocks whole blocks, each a run of one byte
\* (NUL or "B") ending in two bytes of NUL or "A", then a partial block of up
\* to MaxNullTail bytes of NUL or "A".
NullBlockEnds == { <<NUL, NUL>>, <<NUL, 65>>, <<65, NUL>>, <<65, 65>> }
NullBlocks == { Fill(b, BlockSize - 2) \o e : b \in {NUL, 66}, e \in NullBlockEnds }

RECURSIVE Strings(_, _)
Strings(S, n) == IF n = 0 THEN { << >> }
                 ELSE LET T == Strings(S, n - 1)
                      IN  T \cup { t \o <<x>> : t \in { u \in T : Len(u) = n - 1 }, x \in S }

RECURSIVE Concat(_)
Concat(ss) == IF ss = << >> THEN << >> ELSE ss[1] \o Concat(Tail(ss))

NullPayloads ==
    { Concat(bs) \o t : bs \in UNION { [1..n -> NullBlocks] : n \in 0..MaxNullBlocks },
                        t \in Strings({NUL, 65}, MaxNullTail) }

InitNull ==
    /\ cn_dval \in NullPayloads
    /\ cn_out = << >>
    /\ cn_again = << >>
    /\ npc = "read"

\* line 286
CleanNulls ==
    /\ npc = "read"
    /\ cn_out' = clean_null(cn_dval)
    /\ npc' = "cleaned"
    /\ UNCHANGED <<cn_dval, cn_again>>
    /\ OnlyNull

\* clean_null applied to its own result
CleanNullsAgain ==
    /\ npc = "cleaned"
    /\ cn_again' = clean_null(cn_out)
    /\ npc' = "twice"
    /\ UNCHANGED <<cn_dval, cn_out>>
    /\ OnlyNull

NextNull == CleanNulls \/ CleanNullsAgain

\* Every 0x200-byte block of s, the final partial one included, without its
\* trailing NULs, in order.
RECURSIVE StripEachBlock(_)
StripEachBlock(s) ==
    IF s = << >> THEN << >>
    ELSE LET n == Min(BlockSize, Len(s))
         IN  RStripNul(SubSeq(s, 1, n)) \o StripEachBlock(SubSeq(s, n + 1, Len(s)))

\* s is whole 0x200-byte blocks, none of them ending in NUL
WholeCleanBlocks(s) ==
    /\ Len(s) % BlockSize = 0
    /\ \A k \in 1..(Len(s) \div BlockSize) : s[k * BlockSize] # NUL

\* C2, as claimed: clean_null(clean_null(x)) = clean_null(x) for every x.
C2_Idempotent == npc = "twice" => cn_again = cn_out

\* C2, amended: clean_null(clean_null(x)) = clean_null(x) whenever
\* clean_null(x) is a whole number of 0x200-byte blocks none of which ends in NUL.
C2_IdempotentOnWholeCleanBlocks ==
    (npc = "twice" /\ WholeCleanBlocks(cn_out)) => cn_again = cn_out

\* C2's case: the first pass removed bytes and left whole blocks, and the
\* second pass has run.
C2_Witness ==
    /\ npc = "twice"
    /\ WholeCleanBlocks(cn_out)
    /\ cn_out # << >>
    /\ cn_out # cn_dval

\* C9: clean_null returns every 0x200-byte block of the payload, the final
\* partial block included, with only its trailing NULs removed, in order.
C9_NoContentLost == npc # "read" => cn_out = StripEachBlock(cn_dval)

(***************************************************************************)
(* pascal_indent: one action per pass through the body of its while-loop.  *)
(* Python indexes from 0: ba[i] is pi_ba[pi_i + 1].                        *)
(***************************************************************************)
CR == 13
LF == 10
DLE == 16
SPACE == 32

MaxIndentLen == 6
MaxWarnings == 2

\* Bytes tried: CR, the indent marker 0x10, a count byte below 32, the count
\* byte of a 4-space indent, and a letter.
IndentBytes == { CR, DLE, 31, 36, 65 }

\* lines 130-132
InitIndent ==
    /\ pi_dval \in Strings(IndentBytes, MaxIndentLen)
    /\ pi_ba = pi_dval
    /\ pi_i = 0
    /\ pi_nchars = Len(pi_dval)
    /\ pi_warnings = 0
    /\ pi_pc = "scan"

\* line 134: ba[i] == 0x10 and (i != 0 and ba[i-1] == ord('\r'))
AtIndentMarker ==
    /\ pi_ba[pi_i + 1] = DLE
    /\ pi_i # 0
    /\ pi_ba[pi_i] = CR

\* line 135 reads ba[i+1]
HasCountByte == pi_i + 1 < Len(pi_ba)

\* line 133 false, line 146
IndentReturn ==
    /\ pi_pc = "scan"
    /\ ~(pi_i < pi_nchars)
    /\ pi_pc' = "done"
    /\ UNCHANGED <<pi_dval, pi_ba, pi_i, pi_nchars, pi_warnings>>
    /\ OnlyIndent

\* line 134 false, line 145
IndentSkip ==
    /\ pi_pc = "scan"
    /\ pi_i < pi_nchars
    /\ ~AtIndentMarker
    /\ pi_i' = pi_i + 1
    /\ UNCHANGED <<pi_dval, pi_ba, pi_nchars, pi_warnings, pi_pc>>
    /\ OnlyIndent

\* lines 135-145, nspac >= 0
IndentExpand ==
    /\ pi_pc = "scan"
    /\ pi_i < pi_nchars
    /\ AtIndentMarker
    /\ HasCountByte
    /\ LET nspac == pi_ba[pi_i + 2] - 32
       IN  /\ ~(nspac < 0)
           /\ pi_ba' = SubSeq(pi_ba, 1, pi_i) \o Fill(SPACE, nspac)
                           \o SubSeq(pi_ba, pi_i + 3, Len(pi_ba))
           /\ pi_nchars' = (pi_nchars - 2) + nspac
    /\ pi_i' = pi_i + 1
    /\ UNCHANGED <<pi_dval, pi_warnings, pi_pc>>
    /\ OnlyIndent

\* lines 135-138, nspac < 0: the warning is printed and `continue` goes back
\* to line 133 with i as it was
IndentInvalid ==
    /\ pi_pc = "scan"
    /\ pi_i < pi_nchars
    /\ AtIndentMarker
    /\ HasCountByte
    /\ pi_ba[pi_i + 2] - 32 < 0
    /\ pi_i + 1 < Len(pi_dval)
    /\ pi_warnings' = Min(pi_warnings + 1, MaxWarnings)
    /\ UNCHANGED <<pi_dval, pi_ba, pi_i, pi_nchars, pi_pc>>
    /\ OnlyIndent

\* IndexError: line 135 reads ba[i+1] past the end of ba, or line 137 reads
\* dval[i+1] past the end of the argument
IndentRaise ==
    /\ pi_pc = "scan"
    /\ pi_i < pi_nchars
    /\ AtIndentMarker
    /\ \/ ~HasCountByte
       \/ (HasCountByte /\ pi_ba[pi_i + 2] - 32 < 0 /\ ~(pi_i + 1 < Len(pi_dval)))
    /\ pi_pc' = "raised"
    /\ UNCHANGED <<pi_dval, pi_ba, pi_i, pi_nchars, pi_warnings>>
    /\ OnlyIndent

NextIndent == IndentReturn \/ IndentSkip \/ IndentExpand \/ IndentInvalid \/ IndentRaise

\* The scan stands on a 0x10 byte that follows a CR and whose count byte is below 32.
AtInvalidIndent ==
    /\ pi_pc = "scan"
    /\ pi_i < pi_nchars
    /\ AtIndentMarker
    /\ HasCountByte
    /\ pi_ba[pi_i + 2] < 32

\* C3: pascal_indent is total; in particular a pass of the loop that stands
\* on an invalid indent (0x10 after a CR, count byte below 32) does not raise,
\* leaves the buffer as it is and moves the scan forward, so that the loop
\* goes on to the end of the buffer.
C3_InvalidIndentIsPassed ==
    [][ AtInvalidIndent => (pi_pc' = "scan" /\ pi_ba' = pi_ba /\ pi_i' > pi_i) ]_vars

(***************************************************************************)
(* convert_line_endings                                                    *)
(***************************************************************************)
\* bytes.replace(bytes([a, b]), bytes([r])): left to right, without overlap
RECURSIVE ReplacePair(_, _, _, _)
ReplacePair(s, a, b, r) ==
    IF Len(s) < 2 THEN s
    ELSE IF s[1] = a /\ s[2] = b THEN <<r>> \o ReplacePair(SubSeq(s, 3, Len(s)), a, b, r)
    ELSE <<s[1]>> \o ReplacePair(Tail(s), a, b, r)

\* bytes.replace(bytes([a]), bytes([r]))
ReplaceByte(s, a, r) == [k \in 1..Len(s) |-> IF s[k] = a THEN r ELSE s[k]]

\* line 156 without the lookbehind: re.sub(b"\r(?!\n)|\n", b"\r\n", dval)
convert_windows_every_lf(dval) ==
    LET Sub(k) ==
            IF dval[k] = CR /\ ~(k < Len(dval) /\ dval[k + 1] = LF) THEN <<CR, LF>>
            ELSE IF dval[k] = LF THEN <<CR, LF>>
            ELSE <<dval[k]>>
    IN  Concat([k \in 1..Len(dval) |-> Sub(k)])

\* line 156: re.sub(b"\r(?!\n)|(?<!\r)\n", b"\r\n", dval).  Both
\* alternatives match one byte and look only at the bytes of dval next to it, so
\* each byte of dval is replaced or kept on its own.
convert_windows(dval) ==
    LET Sub(k) ==
            IF dval[k] = CR /\ ~(k < Len(dval) /\ dval[k + 1] = LF) THEN <<CR, LF>>
            ELSE IF dval[k] = LF /\ ~(k > 1 /\ dval[k - 1] = CR) THEN <<CR, LF>>
            ELSE <<dval[k]>>
    IN  Concat([k \in 1..Len(dval) |-> Sub(k)])

\* lines 148-157
convert_line_endings(dval, mode) ==
    IF mode = "unix" THEN ReplaceByte(ReplacePair(dval, CR, LF, LF), CR, LF)
    ELSE IF mode = "mac" THEN ReplaceByte(ReplacePair(dval, CR, LF, CR), LF, CR)
    ELSE IF mode = "windows" THEN convert_windows(dval)
    ELSE dval

MaxLELen == 5

LEModes == { "unix", "mac", "windows", "none" }

InitLE ==
    /\ le_dval \in Strings({CR, LF, 65}, MaxLELen)
    /\ le_mode \in LEModes
    /\ le_out = << >>
    /\ le_again = << >>
    /\ le_pc = "read"

\* line 290
ConvertLineEndings ==
    /\ le_pc = "read"
    /\ le_out' = convert_line_endings(le_dval, le_mode)
    /\ le_pc' = "converted"
    /\ UNCHANGED <<le_dval, le_mode, le_again>>
    /\ OnlyLE

\* convert_line_endings applied to its own result
ConvertLineEndingsAgain ==
    /\ le_pc = "converted"
    /\ le_again' = convert_line_endings(le_out, le_mode)
    /\ le_pc' = "twice"
    /\ UNCHANGED <<le_dval, le_mode, le_out>>
    /\ OnlyLE

NextLE == ConvertLineEndings \/ ConvertLineEndingsAgain

\* The line breaks of s read left to right, a CR LF pair as one break: each
\* break replaced by CR LF.
RECURSIVE BreaksToCRLF(_)
BreaksToCRLF(s) ==
    IF s = << >> THEN << >>
    ELSE IF Len(s) >= 2 /\ s[1] = CR /\ s[2] = LF
         THEN <<CR, LF>> \o BreaksToCRLF(SubSeq(s, 3, Len(s)))
    ELSE IF s[1] = CR \/ s[1] = LF THEN <<CR, LF>> \o BreaksToCRLF(Tail(s))
    ELSE <<s[1]>> \o BreaksToCRLF(Tail(s))

\* The number of line breaks of s, a CR LF pair counted once.
RECURSIVE NumBreaks(_)
NumBreaks(s) ==
    IF s = << >> THEN 0
    ELSE IF Len(s) >= 2 /\ s[1] = CR /\ s[2] = LF THEN 1 + NumBreaks(SubSeq(s, 3, Len(s)))
    ELSE IF s[1] = CR \/ s[1] = LF THEN 1 + NumBreaks(Tail(s))
    ELSE NumBreaks(Tail(s))

\* Every CR of s is followed by LF and every LF of s follows a CR.
OnlyCRLF(s) ==
    \A k \in 1..Len(s) :
        /\ s[k] = CR => (k < Len(s) /\ s[k + 1] = LF)
        /\ s[k] = LF => (k > 1 /\ s[k - 1] = CR)

\* C10: conversion to windows replaces each line break of the input (a CR LF
\* pair, a lone CR or a lone LF) by one CR LF and keeps every other byte; the
\* result has only CR LF breaks, as many as the input has breaks, and
\* converting it again changes nothing.
C10_WindowsConversion ==
    (le_mode = "windows" /\ le_pc # "read") =>
        /\ le_out = BreaksToCRLF(le_dval)
        /\ OnlyCRLF(le_out)
        /\ NumBreaks(le_out) = NumBreaks(le_dval)
        /\ le_pc = "twice" => le_again = le_out

\* C10's case: an input with a CR LF pair, a lone CR and a lone LF has been
\* converted to windows, twice.
C10_Witness ==
    /\ le_mode = "windows"
    /\ le_pc = "twice"
    /\ \E k \in 1..(Len(le_dval) - 1) : le_dval[k] = CR /\ le_dval[k + 1] = LF
    /\ \E k \in 1..Len(le_dval) :
          le_dval[k] = CR /\ ~(k < Len(le_dval) /\ le_dval[k + 1] = LF)
    /\ \E k \in 1..Len(le_dval) :
          le_dval[k] = LF /\ ~(k > 1 /\ le_dval[k - 1] = CR)

(***************************************************************************)
(* main: the file-table loop (lines 210-297) and the output loop (lines    *)
(* 299-336).  A 26-byte record is given by its fields, each 16-bit field   *)
(* as its two bytes in file order and each title as its Pascal string.     *)
(* A payload is the extent of datablock it was sliced from, with the names *)
(* of the text transforms applied to it.  print output other than WARNING  *)
(* lines is left out.                                                      *)
(***************************************************************************)
UNTYPFIL == 0
TEXTFILE == 3
DATAFILE == 5
SECURDIR == 8
SEPARATR == -1
RecordLen == 26
SLASH == 47
COLON == 58
DOT == <<46>>

\* lines 34-38
b_to_uint16(dval, le) ==
    IF le THEN dval[1] + 256 * dval[2] ELSE 256 * dval[1] + dval[2]

\* line 41: struct's "p" format takes the count from the first byte, at most
\* the bytes that follow it
pascal_string_to_str(dval) == SubSeq(dval, 2, 1 + Min(dval[1], Len(dval) - 1))

\* str.replace('/', ':')
ReplaceSlash(t) == ReplaceByte(t, SLASH, COLON)

IsLeap(y) == (y % 4 = 0 /\ y % 100 # 0) \/ y % 400 = 0

DaysIn(y, m) ==
    IF m = 2 THEN (IF IsLeap(y) THEN 29 ELSE 28)
    ELSE IF m \in {4, 6, 9, 11} THEN 30 ELSE 31

\* lines 81-84
DateFields(dval) ==
    LET day == (dval \div 16) % 32
    IN  [year |-> 1900 + (dval \div 512), month |-> dval % 16,
         day |-> IF day = 0 THEN day + 1 ELSE day]

\* line 85: datetime.datetime(year, month, day) raises ValueError unless this holds
DateOK(dval) ==
    LET d == DateFields(dval)
    IN  /\ d.month >= 1 /\ d.month <= 12
        /\ d.day >= 1 /\ d.day <= DaysIn(d.year, d.month)

\* lines 80-85, where it returns
get_date(dval) == DateFields(dval)

\* lines 223-226 with the test of f left out: the order taken from every record
little_endian_every_record(fv, filedesc, cur) ==
    IF (b_to_uint16(filedesc.LSTBLK, FALSE) % 256) = 0 THEN TRUE ELSE cur

\* lines 223-226: little_endian after them
little_endian_at(fv, filedesc, cur) ==
    IF fv = 0 /\ (b_to_uint16(filedesc.LSTBLK, FALSE) % 256) = 0 THEN TRUE ELSE cur

\* line 232 with the test of f left out
is_directory_any_record(fv, FKIND) == FKIND = UNTYPFIL \/ FKIND = SECURDIR

\* line 232
is_directory(fv, FKIND) == (fv = 0) /\ (FKIND = UNTYPFIL \/ FKIND = SECURDIR)

\* line 280 with the offset of a text file left out
startoffs_none(FKIND) == 0

\* line 280
startoffs(FKIND) == IF FKIND = TEXTFILE THEN 2 ELSE 0

ImageBlocks == 12
MaxFiles == 2

\* len(datablock)
DataLen == ImageBlocks * BlockSize

\* line 282: the extent of datablock that filedat is
payload(FSTBLK, LSTBLK, LSTBYTE, FKIND) ==
    PySlice(DataLen, (FSTBLK + startoffs(FKIND)) * BlockSize,
                     ((LSTBLK - 1) * BlockSize) + LSTBYTE)

\* lines 284-290: the transforms applied to filedat, in order
transforms(FKIND, a) ==
    IF FKIND = TEXTFILE
    THEN (IF ~a.no_clean_nulls THEN <<"clean_null">> ELSE << >>)
         \o (IF ~a.no_fix_indents THEN <<"pascal_indent">> ELSE << >>)
         \o (IF a.line_endings # "none" THEN <<a.line_endings>> ELSE << >>)
    ELSE << >>

\* lines 271-293: the tuple stored in files for a record read as a file entry
file_entry(filedesc, le, a) ==
    LET LSTBLK == b_to_uint16(filedesc.LSTBLK, le)
        FSTBLK == b_to_uint16(filedesc.FSTBLK, le)
        KIND == b_to_uint16(filedesc.FKIND, le)
        LSTBYTE == b_to_uint16(filedesc.LSTBYTE, le)
        DACCESS == b_to_uint16(filedesc.DACCESS, le)
        FKIND == IF FSTBLK = LSTBLK THEN SEPARATR ELSE KIND
    IN  [title |-> ReplaceSlash(pascal_string_to_str(filedesc.TITLE)),
         date |-> get_date(DACCESS),
         filedat |-> [raw |-> payload(FSTBLK, LSTBLK, LSTBYTE, FKIND),
                      via |-> transforms(FKIND, a)],
         FKIND |-> FKIND]

\* os.path.join(basepath, curdir, title), below basepath, for the first component alone
file_path_root(cd, title) == <<title>>

\* os.path.join(basepath, curdir, title), below basepath
file_path(cd, title) == IF cd = DOT THEN <<title>> ELSE <<cd, title>>

\* The keys of a dict with integer keys, in the order they were inserted.
RECURSIVE KeysInOrder(_)
KeysInOrder(S) ==
    IF S = {} THEN << >>
    ELSE LET k == CHOOSE x \in S : \A y \in S : x <= y
         IN  <<k>> \o KeysInOrder(S \ {k})

(* The images tried *)
to_bytes16(v, le) == IF le THEN <<v % 256, v \div 256>> ELSE <<v \div 256, v % 256>>

GoodDate == 43249       \* 1984-01-15
DayZeroDate == 43009    \* 1984-01, day 0
MonthZeroDate == 43248  \* 1984, month 0, day 15
Feb30Date == 42978      \* 1983-02-30

\* LSTBLK of record 0, as bytes
HeaderLastBlocks == { <<0, 6>>, <<6, 0>>, <<0, 0>>, <<6, 6>> }

Header(lst, fst, kind, title, blocks, n, date, le) ==
    [FSTBLK |-> to_bytes16(fst, le), LSTBLK |-> lst, FKIND |-> to_bytes16(kind, le),
     TITLE |-> title, DEOVBLK |-> to_bytes16(blocks, le),
     DNUMFLS |-> to_bytes16(n, le), DLASTBT |-> to_bytes16(date, le)]

\* Record 0: directory headers written in the order their LSTBLK shows, with
\* 0..MaxFiles files; and headers with one thing wrong or unusual.
HeaderRecords ==
    { Header(lst, 0, kind, <<1, 86>>, ImageBlocks, n, GoodDate, lst[2] = 0) :
        lst \in HeaderLastBlocks, kind \in {UNTYPFIL, SECURDIR}, n \in 0..MaxFiles }
    \cup UNION { { Header(lst, 0, UNTYPFIL, <<1, 86>>, ImageBlocks + 1, 1, GoodDate, lst[2] = 0),
                   Header(lst, 0, UNTYPFIL, <<3, 65, SLASH, 86>>, ImageBlocks, 1, DayZeroDate, lst[2] = 0),
                   Header(lst, 1, UNTYPFIL, <<1, 86>>, ImageBlocks, 1, GoodDate, lst[2] = 0),
                   Header(lst, 0, DATAFILE, <<1, 86>>, ImageBlocks, 1, GoodDate, lst[2] = 0),
                   Header(lst, 0, UNTYPFIL, <<1, 86>>, ImageBlocks, 1, MonthZeroDate, lst[2] = 0),
                   Header(lst, 0, SECURDIR, <<1, 86>>, ImageBlocks, 0, GoodDate, lst[2] # 0) } :
                 lst \in { <<0, 6>>, <<6, 0>> } }

Entry(span, kind, title, lstbyte, date, le) ==
    [FSTBLK |-> to_bytes16(span[1], le), LSTBLK |-> to_bytes16(span[2], le),
     FKIND |-> to_bytes16(kind, le), TITLE |-> title,
     LSTBYTE |-> to_bytes16(lstbyte, le), DACCESS |-> to_bytes16(date, le)]

\* Records 1..: separators and three-block files "A" of each kind, a text file
\* shorter than its two-block offset, a file past the end of the image, a
\* separator and a text file "S" with a short last block, a title with a
\* slash, two dates that are no calendar dates, and a file that ends before
\* it starts; all written in the order le.
EntryRecords(le) ==
    { Entry(span, kind, <<1, 65>>, BlockSize, GoodDate, le) :
        span \in { <<6, 6>>, <<6, 9>> }, kind \in {UNTYPFIL, TEXTFILE, DATAFILE, SECURDIR} }
    \cup { Entry(<<6, 7>>, TEXTFILE, <<1, 65>>, BlockSize, GoodDate, le),
           Entry(<<9, 13>>, DATAFILE, <<1, 65>>, BlockSize, GoodDate, le),
           Entry(<<6, 6>>, DATAFILE, <<1, 83, 66>>, 100, DayZeroDate, le),
           Entry(<<6, 9>>, TEXTFILE, <<1, 83, 66>>, 100, DayZeroDate, le),
           Entry(<<6, 7>>, DATAFILE, <<3, 65, SLASH, 66>>, BlockSize, GoodDate, le),
           Entry(<<6, 7>>, DATAFILE, <<1, 65>>, BlockSize, MonthZeroDate, le),
           Entry(<<6, 7>>, DATAFILE, <<1, 65>>, BlockSize, Feb30Date, le),
           Entry(<<9, 7>>, DATAFILE, <<1, 65>>, BlockSize, GoodDate, le) }

EntryRecordsBE == EntryRecords(FALSE)
EntryRecordsLE == EntryRecords(TRUE)

Records(fv, le) ==
    IF fv = 0 THEN HeaderRecords ELSE IF le THEN EntryRecordsLE ELSE EntryRecordsBE

ArgSets ==
    { [no_clean_nulls |-> FALSE, no_fix_indents |-> FALSE, line_endings |-> "none"],
      [no_clean_nulls |-> TRUE, no_fix_indents |-> TRUE, line_endings |-> "windows"] }

\* datetime.datetime.now() at line 215; replaced at line 244 before any use
Now == [year |-> 0, month |-> 0, day |-> 0]

\* The volume directory before the run: absent, or left by an earlier run with
\* a directory "A" and a file "S" in it.
OldTrees ==
    { [dirs |-> << >>, files |-> << >>],
      [dirs |-> (<< >> :> Now) @@ (<< <<65>> >> :> Now),
       files |-> (<< <<83>> >> :> [data |-> [raw |-> <<0, 0>>, via |-> << >>], mtime |-> Now])] }

\* lines 210-216
InitMain ==
    /\ args \in ArgSets
    /\ written_le \in BOOLEAN
    /\ \E old \in OldTrees : fs_dirs = old.dirs /\ fs_files = old.files
    /\ table = << >>
    /\ f = 0
    /\ nfiles = 1
    /\ dirfound = FALSE
    /\ little_endian = FALSE
    /\ volname = DOT
    /\ disktime = Now
    /\ files = << >>
    /\ warnings = {}
    /\ curdir = DOT
    /\ pending = << >>
    /\ outlog = << >>
    /\ mpc = "parse"

\* line 218: the loop goes on
Reading ==
    /\ mpc = "parse"
    /\ f <= nfiles

KindOf(filedesc) ==
    b_to_uint16(filedesc.FKIND, little_endian_at(f, filedesc, little_endian))

\* lines 232-263: a directory record; the header checks pass (or dirfound is set)
ParseDirectory ==
    /\ Reading
    /\ \E filedesc \in Records(f, written_le) :
        LET le == little_endian_at(f, filedesc, little_endian)
            FSTBLK == b_to_uint16(filedesc.FSTBLK, le)
            DEOVBLK == b_to_uint16(filedesc.DEOVBLK, le)
            DNUMFLS == b_to_uint16(filedesc.DNUMFLS, le)
            DLASTBT == b_to_uint16(filedesc.DLASTBT, le)
        IN  /\ is_directory(f, KindOf(filedesc))
            /\ IF dirfound = FALSE
               THEN /\ DateOK(DLASTBT)
                    /\ ~(FSTBLK # RecordLen * f)
                    /\ DNUMFLS <= MaxFiles
                    /\ warnings' = IF DEOVBLK * BlockSize # DataLen
                                   THEN warnings \cup {"length"} ELSE warnings
                    /\ disktime' = get_date(DLASTBT)
                    /\ nfiles' = DNUMFLS
                    /\ volname' = ReplaceSlash(pascal_string_to_str(filedesc.TITLE))
                    /\ dirfound' = TRUE
               ELSE /\ warnings' = warnings \cup {"nondir"}
                    /\ UNCHANGED <<disktime, nfiles, volname, dirfound>>
            /\ little_endian' = le
            /\ table' = Append(table, filedesc)
            /\ f' = f + 1
            /\ UNCHANGED <<args, written_le, files, curdir, pending, fs_dirs, fs_files, outlog, mpc>>
            /\ OnlyMain

\* lines 243-250: the header's date or its first block is wrong: exit(3)
ParseDirectoryCorrupt ==
    /\ Reading
    /\ \E filedesc \in Records(f, written_le) :
        LET le == little_endian_at(f, filedesc, little_endian)
            FSTBLK == b_to_uint16(filedesc.FSTBLK, le)
            DEOVBLK == b_to_uint16(filedesc.DEOVBLK, le)
            DLASTBT == b_to_uint16(filedesc.DLASTBT, le)
        IN  /\ is_directory(f, KindOf(filedesc))
            /\ dirfound = FALSE
            /\ ~DateOK(DLASTBT) \/ FSTBLK # RecordLen * f
            /\ warnings' = IF DEOVBLK * BlockSize # DataLen
                           THEN warnings \cup {"length"} ELSE warnings
            /\ disktime' = IF DateOK(DLASTBT) THEN get_date(DLASTBT) ELSE disktime
            /\ little_endian' = le
            /\ table' = Append(table, filedesc)
            /\ mpc' = "exit3"
            /\ UNCHANGED <<args, written_le, f, nfiles, dirfound, volname, files, curdir,
                           pending, fs_dirs, fs_files, outlog>>
            /\ OnlyMain

\* lines 264-266: record 0 is no directory: exit(3)
ParseNoDirectory ==
    /\ Reading
    /\ \E filedesc \in Records(f, written_le) :
        /\ ~is_directory(f, KindOf(filedesc))
        /\ f = 0
        /\ little_endian' = little_endian_at(f, filedesc, little_endian)
        /\ table' = Append(table, filedesc)
        /\ mpc' = "exit3"
        /\ UNCHANGED <<args, written_le, f, nfiles, dirfound, volname, disktime, files,
                       warnings, curdir, pending, fs_dirs, fs_files, outlog>>
        /\ OnlyMain

\* The record is read as a file entry (lines 267-273).
ReadingEntry(filedesc) ==
    /\ ~is_directory(f, KindOf(filedesc))
    /\ f # 0

\* The text transforms of lines 284-290 may call pascal_indent on a payload
\* that can hold an indent marker.
MayCallIndent(e) ==
    /\ "pascal_indent" \in { e.filedat.via[k] : k \in 1..Len(e.filedat.via) }
    /\ e.filedat.raw[2] - e.filedat.raw[1] >= 2

\* lines 267-293: a file entry is recorded
ParseEntry ==
    /\ Reading
    /\ \E filedesc \in Records(f, written_le) :
        LET le == little_endian_at(f, filedesc, little_endian)
        IN  /\ ReadingEntry(filedesc)
            /\ little_endian' = le
            /\ table' = Append(table, filedesc)
            /\ f' = f + 1
            /\ IF dirfound = FALSE
               THEN UNCHANGED files
               ELSE /\ DateOK(b_to_uint16(filedesc.DACCESS, le))
                    /\ files' = ((f + 1) - 1 :> file_entry(filedesc, le, args)) @@ files
            /\ UNCHANGED <<args, written_le, nfiles, dirfound, volname, disktime, warnings,
                           curdir, pending, fs_dirs, fs_files, outlog, mpc>>
            /\ OnlyMain

\* line 276: get_date(DACCESS) raises ValueError, which nothing catches
ParseEntryBadDate ==
    /\ Reading
    /\ \E filedesc \in Records(f, written_le) :
        LET le == little_endian_at(f, filedesc, little_endian)
        IN  /\ ReadingEntry(filedesc)
            /\ dirfound
            /\ ~DateOK(b_to_uint16(filedesc.DACCESS, le))
            /\ little_endian' = le
            /\ table' = Append(table, filedesc)
            /\ f' = f + 1
            /\ mpc' = "ValueError"
            /\ UNCHANGED <<args, written_le, nfiles, dirfound, volname, disktime, files,
                           warnings, curdir, pending, fs_dirs, fs_files, outlog>>
            /\ OnlyMain

\* line 288: pascal_indent raises IndexError or never returns, as the bytes of
\* the payload decide
ParseEntryIndentFails ==
    /\ Reading
    /\ \E filedesc \in Records(f, written_le), how \in {"IndexError", "hung"} :
        LET le == little_endian_at(f, filedesc, little_endian)
        IN  /\ ReadingEntry(filedesc)
            /\ dirfound
            /\ DateOK(b_to_uint16(filedesc.DACCESS, le))
            /\ MayCallIndent(file_entry(filedesc, le, args))
            /\ little_endian' = le
            /\ table' = Append(table, filedesc)
            /\ f' = f + 1
            /\ mpc' = how
            /\ UNCHANGED <<args, written_le, nfiles, dirfound, volname, disktime, files,
                           warnings, curdir, pending, fs_dirs, fs_files, outlog>>
            /\ OnlyMain

\* lines 218 (the loop ends) and 295-319: the volume directory is made if it is
\* not there and its time set; the output loop starts
EndOfTable ==
    /\ mpc = "parse"
    /\ ~(f <= nfiles)
    /\ IF dirfound = FALSE
       THEN /\ mpc' = "exit3"
            /\ UNCHANGED <<fs_dirs, curdir, pending>>
       ELSE /\ fs_dirs' = (<< >> :> disktime) @@ fs_dirs
            /\ curdir' = DOT
            /\ pending' = KeysInOrder(DOMAIN files)
            /\ mpc' = "write"
    /\ UNCHANGED <<args, table, written_le, f, nfiles, dirfound, little_endian, volname,
                   disktime, files, warnings, fs_files, outlog>>
    /\ OnlyMain

\* os.path.exists(opath)
Exists(path) == path \in DOMAIN fs_dirs \/ path \in DOMAIN fs_files

\* os.utime(opath, (mtime, mtime)) on a directory
UtimeDirs(dirs, path, mtime) ==
    IF path \in DOMAIN dirs THEN (path :> mtime) @@ dirs ELSE dirs

\* os.utime(opath, (mtime, mtime)) on a file
UtimeFiles(path, mtime) ==
    IF path \in DOMAIN fs_files
    THEN (path :> [data |-> fs_files[path].data, mtime |-> mtime]) @@ fs_files
    ELSE fs_files

\* lines 320-327, 335-336: a separator
WriteSeparator ==
    /\ mpc = "write"
    /\ pending # << >>
    /\ LET e == files[Head(pending)]
           opath == <<e.title>>
       IN  /\ e.FKIND = SEPARATR
           /\ curdir' = e.title
           /\ fs_dirs' = UtimeDirs(IF ~Exists(opath) THEN (opath :> Now) @@ fs_dirs ELSE fs_dirs,
                                   opath, e.date)
           /\ fs_files' = UtimeFiles(opath, e.date)
           /\ outlog' = IF ~Exists(opath)
                        THEN Append(outlog, [op |-> "mkdir", key |-> Head(pending), path |-> opath])
                        ELSE outlog
    /\ f' = Head(pending)
    /\ pending' = Tail(pending)
    /\ UNCHANGED <<args, table, written_le, nfiles, dirfound, little_endian, volname,
                   disktime, files, warnings, mpc>>
    /\ OnlyMain

\* open(opath, 'wb') succeeds: opath is no directory and the directory it is in is one
CanOpen(opath) ==
    /\ opath \notin DOMAIN fs_dirs
    /\ SubSeq(opath, 1, Len(opath) - 1) \in DOMAIN fs_dirs

\* lines 328-336: a file
WriteFile ==
    /\ mpc = "write"
    /\ pending # << >>
    /\ LET e == files[Head(pending)]
           opath == file_path(curdir, e.title)
       IN  /\ e.FKIND # SEPARATR
           /\ CanOpen(opath)
           /\ fs_files' = (opath :> [data |-> e.filedat, mtime |-> e.date]) @@ fs_files
           /\ outlog' = Append(outlog, [op |-> "write", key |-> Head(pending), path |-> opath])
    /\ f' = Head(pending)
    /\ pending' = Tail(pending)
    /\ UNCHANGED <<args, table, written_le, nfiles, dirfound, little_endian, volname,
                   disktime, files, warnings, curdir, fs_dirs, mpc>>
    /\ OnlyMain

\* line 331: open raises IsADirectoryError or NotADirectoryError, which nothing catches
WriteRaises ==
    /\ mpc = "write"
    /\ pending # << >>
    /\ LET e == files[Head(pending)]
       IN  /\ e.FKIND # SEPARATR
           /\ ~CanOpen(file_path(curdir, e.title))
    /\ f' = Head(pending)
    /\ mpc' = "OSError"
    /\ UNCHANGED <<args, table, written_le, nfiles, dirfound, little_endian, volname,
                   disktime, files, warnings, curdir, pending, fs_dirs, fs_files, outlog>>
    /\ OnlyMain

\* line 320: no key is left
EndOfFiles ==
    /\ mpc = "write"
    /\ pending = << >>
    /\ mpc' = "done"
    /\ UNCHANGED <<args, table, written_le, f, nfiles, dirfound, little_endian, volname,
                   disktime, files, warnings, curdir, pending, fs_dirs, fs_files, outlog>>
    /\ OnlyMain

NextMain ==
    \/ ParseDirectory \/ ParseDirectoryCorrupt \/ ParseNoDirectory
    \/ ParseEntry \/ ParseEntryBadDate \/ ParseEntryIndentFails
    \/ EndOfTable \/ WriteSeparator \/ WriteFile \/ WriteRaises \/ EndOfFiles

(***************************************************************************)
(* Claims about main.  Record r of the table is table[r + 1]; files[r] is  *)
(* the entry recorded for record r.                                        *)
(***************************************************************************)
\* The number of the last record read.
LastRead == Len(table) - 1

\* The run ended in the file-table loop with an exception or without returning.
ParseAborted == mpc \in {"ValueError", "IndexError", "hung"}

\* Record r was read and the body of the loop ran to its end for it.
Processed(r) == r \in 1..LastRead /\ ~(ParseAborted /\ r = LastRead)

Field(r, name) == b_to_uint16(table[r + 1][name], little_endian)

\* The stored kind of record r is a directory kind.
DirKind(r) == Field(r, "FKIND") \in {UNTYPFIL, SECURDIR}

Length(e) == e[2] - e[1]

\* C4: a record at index 1..nfiles whose access date is no calendar date
\* does not abort the run.
C4_BadEntryDateOnlyWarns ==
    \A r \in 1..LastRead : ~DateOK(Field(r, "DACCESS")) => mpc # "ValueError"

SpanInside(r) == ((Field(r, "LSTBLK") - 1) * BlockSize) + Field(r, "LSTBYTE") <= DataLen

\* C6, as claimed: the raw payload of a non-separator entry with
\* lastBlock > firstBlock inside the data block has length
\* (lastBlock - firstBlock) * 0x200 + finalByteCount, less 2 * 0x200 for text.
C6_PayloadLengthAsClaimed ==
    \A r \in DOMAIN files :
        (files[r].FKIND # SEPARATR /\ Field(r, "LSTBLK") > Field(r, "FSTBLK") /\ SpanInside(r)) =>
            Length(files[r].filedat.raw) =
                ((Field(r, "LSTBLK") - Field(r, "FSTBLK")) * BlockSize) + Field(r, "LSTBYTE")
                    - (IF files[r].FKIND = TEXTFILE THEN 2 * BlockSize ELSE 0)

\* C6, amended: that length is (lastBlock - firstBlock - 1) * 0x200 +
\* finalByteCount, less 2 * 0x200 for text, and 0 when this is negative.
C6_PayloadLength ==
    \A r \in DOMAIN files :
        (files[r].FKIND # SEPARATR /\ Field(r, "LSTBLK") > Field(r, "FSTBLK") /\ SpanInside(r)) =>
            Length(files[r].filedat.raw) =
                Max(0, ((Field(r, "LSTBLK") - Field(r, "FSTBLK") - 1) * BlockSize)
                        + Field(r, "LSTBYTE")
                        - (IF files[r].FKIND = TEXTFILE THEN 2 * BlockSize ELSE 0))

\* C6's case: a text entry and another entry, both inside the data block and
\* not empty, have been recorded.
C6_Witness ==
    /\ \E r \in DOMAIN files :
          /\ files[r].FKIND = TEXTFILE /\ SpanInside(r)
          /\ Length(files[r].filedat.raw) > 0
    /\ \E r \in DOMAIN files :
          /\ files[r].FKIND \notin {TEXTFILE, SEPARATR} /\ SpanInside(r)
          /\ Length(files[r].filedat.raw) > 0

\* The byte order record 0 shows: little-endian iff the low byte of its
\* LSTBLK, read big-endian, is 0.
OrderOfRecord0 == table[1].LSTBLK[2] = 0

\* C7: the byte order is what record 0 shows, from record 0 on, whatever the
\* later records hold; the header fields and every recorded entry are decoded
\* in that order.
C7_ByteOrderDecidedOnce ==
    /\ Len(table) = 0 => little_endian = FALSE
    /\ Len(table) >= 1 => little_endian = OrderOfRecord0
    /\ dirfound =>
          /\ nfiles = b_to_uint16(table[1].DNUMFLS, OrderOfRecord0)
          /\ disktime = get_date(b_to_uint16(table[1].DLASTBT, OrderOfRecord0))
    /\ \A r \in DOMAIN files : files[r] = file_entry(table[r + 1], OrderOfRecord0, args)

\* C7's case: record 0 showed big-endian, two more records were read and
\* recorded, and the LSTBLK of one of them has a zero low byte.
C7_Witness ==
    /\ Len(table) >= 3
    /\ DOMAIN files = {1, 2}
    /\ ~little_endian
    /\ \E r \in 1..2 : table[r + 1].LSTBLK[2] = 0

\* The title of the last separator before key r, DOT when there is none.
ExpectedDir(r) ==
    LET seps == { q \in DOMAIN files : q < r /\ files[q].FKIND = SEPARATR }
    IN  IF seps = {} THEN DOT
        ELSE files[CHOOSE q \in seps : \A p \in seps : p <= q].title

ExpectedPath(r) ==
    IF ExpectedDir(r) = DOT THEN <<files[r].title>> ELSE <<ExpectedDir(r), files[r].title>>

StartSwap == InitSwap /\ NullIdle /\ IndentIdle /\ LEIdle /\ MainIdle
StartNull == InitNull /\ SwapIdle /\ IndentIdle /\ LEIdle /\ MainIdle
StartIndent == InitIndent /\ SwapIdle /\ NullIdle /\ LEIdle /\ MainIdle
StartLE == InitLE /\ SwapIdle /\ NullIdle /\ IndentIdle /\ MainIdle
StartMain == InitMain /\ SwapIdle /\ NullIdle /\ IndentIdle /\ LEIdle

SpecSwap == StartSwap /\ [][NextSwap]_vars
SpecNull == StartNull /\ [][NextNull]_vars
SpecIndent == StartIndent /\ [][NextIndent]_vars
SpecLE == StartLE /\ [][NextLE]_vars
SpecMain == StartMain /\ [][NextMain]_vars
=============================================================================
